---- MODULE Spec2Model ----
(***************************************************************************)
(* FROS: real-time route adjustment.                                       *)
(*                                                                         *)
(* Spec     the route registry and the blocked-waypoint handler            *)
(*          (backend/realtime/route_adjuster.py, RouteAdjuster).           *)
(*                                                                         *)
(* SpecChain  successive PPORerouter.reroute calls, each on the route the  *)
(*          previous one returned                                          *)
(*          (backend/services/optimization/ppo_rerouter.py, PPORerouter).  *)
(*                                                                         *)
(* SpecCost  calls of the cost functions on one Route object               *)
(*          (backend/models/route.py, Route).                              *)
(*                                                                         *)
(* SpecDict  the chain of SpecChain with the route passing through         *)
(*          Route.to_dict and Route.from_dict between two calls.           *)
(*                                                                         *)
(* SpecRace  reroute calls on one weather-aware PPORerouter that overlap   *)
(*          at the weather lookup of evaluate_alternatives.                *)
(*                                                                         *)
(* Indices are Python's: a list position is 0-based, the TLA+ sequence     *)
(* position is the Python position plus one, and "not found" is -1.        *)
(***************************************************************************)
EXTENDS Integers, Sequences, FiniteSets, TLC

\* ------------------------------------------------------------------ bounds
\* Waypoints the generator may create for bypass segments, over a whole run.
MaxGen == 1
\* handle_blocked_waypoint calls over a whole run.
MaxCalls == 2
\* Waypoints of a route at registration.
MaxWp == 3
\* Waypoints of the bypass segment the optimizer returns.
MaxSeg == 3

\* ------------------------------------------------------------------ values
RouteIds == {"R1", "R2"}
\* Slots for handle_blocked_waypoint calls in flight; a call takes the lowest
\* free slot, the slots being interchangeable.
Procs == {1, 2}
\* Waypoint ids stand for uuid4 values: the waypoints of a registered route
\* take the ids of its own block, generated waypoints the ids after the blocks.
IdBase(route_id) == IF route_id = "R1" THEN 0 ELSE MaxWp
FirstGenId == 2 * MaxWp + 1
MaxId == 2 * MaxWp + MaxGen
WpIds == 1..MaxId

Point(lat, lon) == [latitude |-> lat, longitude |-> lon]
OriginPoint == Point(0, 0)
DestPoint == Point(1, 1)
\* Where every waypoint that is not a route's last one lies.
EnRoutePoint == Point(0, 1)

NoRoute == [none |-> TRUE]
NoRequest == [none |-> TRUE]
NoLocals == [none |-> TRUE]

\* What one handle_blocked_waypoint call handed back to its caller.
RetPending == [kind |-> "pending"]
RetNone == [kind |-> "None"]
RetRaised == [kind |-> "Raised"]
\* The Route object handed back is the stored one; waypoints is its sequence
\* at the return, route_id and waypoint_id are the call's arguments.
RetRoute(route_id, waypoint_id, waypoints) ==
    [kind |-> "Route", route_id |-> route_id, waypoint_id |-> waypoint_id,
     waypoints |-> waypoints]

\* Outcome of generate_alternative_routes followed by optimizer.optimize.
GenRaise == [kind |-> "raise"]
GenNone == [kind |-> "none"]
GenSegment(k) == [kind |-> "segment", len |-> k]
GenOutcomes == {GenRaise, GenNone} \cup {GenSegment(k) : k \in 0..MaxSeg}

VARIABLES
    active_routes,  \* RouteAdjuster.active_routes: route id -> Route or NoRoute
    heap,           \* the Waypoint objects: id -> [status, point, order]
    nextId,         \* next unused id for a generated waypoint
    calls,          \* handle_blocked_waypoint calls made so far
    pc,             \* per handler call: "idle" or "awaiting" (suspended at the generator)
    locals,         \* per suspended call: route_id, waypoint_id, blocked_idx
    gen_request,    \* per suspended call: the arguments sent to the generator
    ret,            \* what the call that returned last handed to its caller
    ep,             \* observer: the calls since the registry was last quiescent
    current_route,     \* the route the next reroute call is made on
    used_route_types,  \* PPORerouter.used_route_types
    weather_aware,     \* consider_fuel and weather_service and aircraft (line 186)
    uid,               \* number of uuid4 values drawn by the rerouter so far
    attempts,          \* reroute calls made so far
    reroutes,          \* how many of them returned a route
    last,              \* observer: the last reroute call, its inputs and its result
    cost_route,        \* a Route object the cost functions are called on
    cost_ops,          \* calls made on it so far
    cost_last,         \* observer: the last of these calls and how it ended
    in_flight          \* per overlapping reroute call: its arguments and where it is

adj_vars == <<active_routes, heap, nextId, calls, pc, locals, gen_request, ret, ep>>
ppo_vars == <<current_route, used_route_types, weather_aware, uid, attempts, reroutes,
              last>>
cost_vars == <<cost_route, cost_ops, cost_last>>
race_vars == <<in_flight>>
vars == <<adj_vars, ppo_vars, cost_vars, race_vars>>

\* ------------------------------------------------------------- pure helpers
Range(s) == {s[i] : i \in 1..Len(s)}

\* Python s[:k] and s[k:] for 0 <= k.
Take(s, k) == SubSeq(s, 1, IF k < Len(s) THEN k ELSE Len(s))
Drop(s, k) == SubSeq(s, k + 1, Len(s))

Min(S) == CHOOSE x \in S : \A y \in S : x <= y

\* calculate_distance / geodesic between two points, as the squared distance
\* on the grid: zero between equal coordinates only, symmetric.
Dist(a, b) ==
    (a.latitude - b.latitude) * (a.latitude - b.latitude)
    + (a.longitude - b.longitude) * (a.longitude - b.longitude)

RECURSIVE Sum(_)
Sum(s) == IF s = <<>> THEN 0 ELSE s[1] + Sum(Tail(s))

\* An origin or destination that is None.
NoAirport == [none |-> TRUE]

\* Route.calculate_total_distance (route.py lines 217-236) on the
\* coordinates of the waypoints: the leg array it stores; the distance it
\* stores and returns is the sum of it.
LegDistances(origin, points, destination) ==
    (IF origin # NoAirport /\ points # <<>>
     THEN <<Dist(origin, points[1])>> ELSE <<>>)
    \o [i \in 1..(Len(points) - 1) |-> Dist(points[i], points[i + 1])]
    \o (IF destination # NoAirport /\ points # <<>>
        THEN <<Dist(points[Len(points)], destination)>> ELSE <<>>)

mark_as_blocked(w) == [w EXCEPT !.status = "BLOCKED"]
mark_as_active(w) == [w EXCEPT !.status = "ACTIVE"]

\* FindBlockedIdx with the loop variable read after a loop that never broke.
FindBlockedIdxLeaked(waypoints, waypoint_id) ==
    LET hits == {i \in 1..Len(waypoints) : waypoints[i] = waypoint_id}
    IN  IF hits = {} THEN Len(waypoints) - 1 ELSE Min(hits) - 1

\* The loop of lines 62-68: the first position whose waypoint has the id.
FindBlockedIdx(waypoints, waypoint_id) ==
    LET hits == {i \in 1..Len(waypoints) : waypoints[i] = waypoint_id}
    IN  IF hits = {} THEN -1 ELSE Min(hits) - 1

\* The state changes made before the generator is called: the blocked
\* waypoint is marked (line 67) and the waypoint before it becomes the
\* current position (lines 75-77).
MarkStatuses(h, waypoints, blocked_idx) ==
    LET b == waypoints[blocked_idx + 1]
        h1 == [h EXCEPT ![b] = mark_as_blocked(h[b])]
    IN  IF blocked_idx > 0
        THEN LET c == waypoints[blocked_idx] IN [h1 EXCEPT ![c] = mark_as_active(h1[c])]
        ELSE h1

\* Lines 74-93: where the bypass starts and where it rejoins.
CurrentPoint(h, route, blocked_idx) ==
    IF blocked_idx > 0 THEN h[route.waypoints[blocked_idx]].point ELSE route.origin

NextWaypointPoint(h, route, blocked_idx) ==
    IF blocked_idx > 0
    THEN IF blocked_idx + 1 < Len(route.waypoints)
         THEN h[route.waypoints[blocked_idx + 2]].point
         ELSE route.destination
    ELSE IF Len(route.waypoints) > 1
         THEN h[route.waypoints[2]].point
         ELSE route.destination

\* Lines 95-121: the request sent to generate_alternative_routes.
GenRequest(h, route, blocked_idx) ==
    [origin |-> CurrentPoint(h, route, blocked_idx),
     destination |-> NextWaypointPoint(h, route, blocked_idx),
     excluded_center |-> h[route.waypoints[blocked_idx + 1]].point]

\* Line 126: "not new_segment or not new_segment.waypoints".
NoUsableSegment(outcome) ==
    outcome.kind = "none" \/ (outcome.kind = "segment" /\ outcome.len = 0)

\* n consecutive fresh waypoint ids (uuid4 values), allocated from id.
FreshIds(id, n) == [i \in 1..n |-> id + i - 1]

\* The waypoints of a returned segment of k waypoints.  Its first and last
\* stand for the temporary origin and the rejoin point (comment of line
\* 132); the k-2 between them are new waypoints with ids allocated from id.
TempOriginId == 0 - 1
RejoinId == 0 - 2
SegmentIds(id, k) ==
    [i \in 1..k |-> IF i = 1 THEN TempOriginId
                    ELSE IF i = k THEN RejoinId
                    ELSE id + i - 2]
Interior(k) == IF k > 2 THEN k - 2 ELSE 0

\* NewWaypoints with the rest of the route taken from the blocked index on.
NewWaypointsFromBlocked(waypoints, blocked_idx, segment) ==
    (IF blocked_idx > 0 THEN Take(waypoints, blocked_idx) ELSE <<>>)
    \o (IF Len(segment) > 2 THEN SubSeq(segment, 2, Len(segment) - 1) ELSE <<>>)
    \o Drop(waypoints, blocked_idx)

\* Lines 134-142: prefix before the blocked index, interior of the new
\* segment, rest of the original waypoints.
NewWaypoints(waypoints, blocked_idx, segment) ==
    (IF blocked_idx > 0 THEN Take(waypoints, blocked_idx) ELSE <<>>)
    \o (IF Len(segment) > 2 THEN SubSeq(segment, 2, Len(segment) - 1) ELSE <<>>)
    \o (IF blocked_idx + 1 < Len(waypoints) THEN Drop(waypoints, blocked_idx + 1) ELSE <<>>)

\* CommitRoute writing the new sequence into every registered route.
CommitRouteEverywhere(routes, route_id, new_waypoints) ==
    [r \in DOMAIN routes |->
        IF routes[r] = [none |-> TRUE] THEN routes[r]
        ELSE [routes[r] EXCEPT !.waypoints = new_waypoints]]

\* Lines 145-146: the commit into the registry entry of route_id.
CommitRoute(routes, route_id, new_waypoints) ==
    [routes EXCEPT ![route_id] = [routes[route_id] EXCEPT !.waypoints = new_waypoints]]

\* ------------------------------------------------------------- the observer
\* The stored route as a caller sees it: the ids in order, each with the
\* lifecycle state of its waypoint.
Stored(routes, h, route_id) ==
    [waypoints |-> routes[route_id].waypoints,
     statuses |-> [i \in 1..Len(routes[route_id].waypoints) |->
                      h[routes[route_id].waypoints[i]].status]]

OthersIdle(p) == \A q \in Procs \ {p} : pc[q] = "idle"

NoEpoch == [phase |-> "none", clean |-> FALSE, n |-> 0]
DirtyEpoch(phase) == [phase |-> phase, clean |-> FALSE, n |-> 3]

\* A call that found its waypoint starts: it opens an epoch when no other
\* call is in flight, and joins the open one otherwise.  An epoch stays
\* clean while it holds at most two calls, both on the same route id.
EpStart(p, route_id) ==
    IF OthersIdle(p)
    THEN [phase |-> "open", clean |-> TRUE, n |-> 1, route_id |-> route_id,
          base |-> Stored(active_routes, heap, route_id),
          base_id |-> nextId, done |-> <<>>]
    ELSE IF ep.clean /\ ep.n = 1 /\ ep.route_id = route_id
         THEN [ep EXCEPT !.n = 2]
         ELSE DirtyEpoch("open")

\* A call that found its waypoint ends, having committed the interior or not.
EpFinish(p, waypoint_id, committed, interior) ==
    LET phase == IF OthersIdle(p) THEN "closed" ELSE "open"
    IN  IF ep.clean
        THEN [ep EXCEPT !.phase = phase,
                        !.done = Append(@, [waypoint_id |-> waypoint_id,
                                            committed |-> committed,
                                            interior |-> interior])]
        ELSE DirtyEpoch(phase)

\* ------------------------------------------------------------------ actions
\* The rerouter takes no part in the registry's behaviours.
PPOUnused ==
    /\ current_route = [none |-> TRUE]
    /\ used_route_types = <<>>
    /\ weather_aware = FALSE
    /\ uid = 0
    /\ attempts = 0
    /\ reroutes = 0
    /\ last = [none |-> TRUE]

\* No reroute call overlaps another.
RaceUnused == in_flight = <<>>

\* No Route object is handed to the cost functions.
CostUnused ==
    /\ cost_route = [none |-> TRUE]
    /\ cost_ops = 0
    /\ cost_last = [none |-> TRUE]

\* RouteAdjuster.__init__ (lines 18-25): no route registered, no call made.
AdjusterInit ==
    /\ active_routes = [r \in RouteIds |-> NoRoute]
    /\ heap = [w \in WpIds |->
                 [status |-> "PENDING", point |-> OriginPoint, order |-> 0]]
    /\ nextId = FirstGenId
    /\ calls = 0
    /\ pc = [p \in Procs |-> "idle"]
    /\ locals = [p \in Procs |-> NoLocals]
    /\ gen_request = [p \in Procs |-> NoRequest]
    /\ ret = RetPending
    /\ ep = NoEpoch

Init ==
    /\ AdjusterInit
    /\ PPOUnused
    /\ CostUnused
    /\ RaceUnused

\* register_route (lines 150-153), for a route the generator built: n fresh
\* waypoints, all PENDING, the last of them at the destination, each with its
\* 1-based position as its order, and with its distance computed.
RegisterRoute(route_id, n) ==
    /\ active_routes[route_id] = NoRoute
    /\ active_routes' = [active_routes EXCEPT ![route_id] =
           LET points == [i \in 1..n |-> IF i = n THEN DestPoint ELSE EnRoutePoint]
               leg_distances == LegDistances(OriginPoint, points, DestPoint)
           IN  [waypoints |-> FreshIds(IdBase(route_id) + 1, n),
                origin |-> OriginPoint,
                destination |-> DestPoint,
                leg_distances |-> leg_distances,
                distance |-> Sum(leg_distances)]]
    /\ heap' = [w \in WpIds |->
           IF w > IdBase(route_id) /\ w <= IdBase(route_id) + n
           THEN [status |-> "PENDING",
                 point |-> IF w = IdBase(route_id) + n THEN DestPoint ELSE EnRoutePoint,
                 order |-> w - IdBase(route_id)]
           ELSE heap[w]]
    /\ UNCHANGED <<nextId, calls, pc, locals, gen_request, ret, ep, ppo_vars, cost_vars, race_vars>>

\* handle_blocked_waypoint from its entry to the await of line 116.
HandleStart(p, route_id, waypoint_id) ==
    /\ UNCHANGED <<ppo_vars, cost_vars, race_vars>>
    /\ pc[p] = "idle"
    /\ \A q \in Procs : q < p => pc[q] # "idle"
    /\ calls < MaxCalls
    /\ calls' = calls + 1
    /\ LET route == active_routes[route_id]
           blocked_idx == IF route = NoRoute THEN -1
                          ELSE FindBlockedIdx(route.waypoints, waypoint_id)
       IN  IF route = NoRoute \/ blocked_idx = -1
           THEN \* lines 58-60 and 70-72: return None
                /\ ret' = RetNone
                /\ UNCHANGED <<active_routes, heap, nextId, pc, locals, gen_request, ep>>
           ELSE /\ heap' = MarkStatuses(heap, route.waypoints, blocked_idx)
                /\ pc' = [pc EXCEPT ![p] = "awaiting"]
                /\ locals' = [locals EXCEPT ![p] =
                       [route_id |-> route_id, waypoint_id |-> waypoint_id,
                        blocked_idx |-> blocked_idx]]
                /\ gen_request' = [gen_request EXCEPT ![p] =
                       GenRequest(heap, route, blocked_idx)]
                /\ ep' = EpStart(p, route_id)
                /\ UNCHANGED <<active_routes, nextId, ret>>

\* handle_blocked_waypoint from the generator's answer to its return
\* (lines 116-148).
HandleResume(p, outcome) ==
    /\ UNCHANGED <<ppo_vars, cost_vars, race_vars>>
    /\ pc[p] = "awaiting"
    /\ UNCHANGED calls
    /\ LET l == locals[p]
           route == active_routes[l.route_id]
       IN  IF outcome.kind = "raise"
           THEN /\ ret' = RetRaised
                /\ ep' = EpFinish(p, l.waypoint_id, FALSE, <<>>)
                /\ UNCHANGED <<active_routes, heap, nextId>>
           ELSE IF NoUsableSegment(outcome)
           THEN /\ ret' = RetNone
                /\ ep' = EpFinish(p, l.waypoint_id, FALSE, <<>>)
                /\ UNCHANGED <<active_routes, heap, nextId>>
           ELSE LET k == outcome.len
                    segment == SegmentIds(nextId, k)
                    new_waypoints == NewWaypoints(route.waypoints, l.blocked_idx, segment)
                IN  /\ nextId + Interior(k) - 1 <= MaxId
                    /\ heap' = [w \in WpIds |->
                           IF w >= nextId /\ w < nextId + Interior(k)
                           THEN \* a waypoint of the segment, a route of its
                                \* own: its order is its position in the segment
                                [status |-> "PENDING", point |-> EnRoutePoint,
                                 order |-> w - nextId + 2]
                           ELSE heap[w]]
                    /\ nextId' = nextId + Interior(k)
                    /\ active_routes' = CommitRoute(active_routes, l.route_id, new_waypoints)
                    /\ ret' = RetRoute(l.route_id, l.waypoint_id, new_waypoints)
                    /\ ep' = EpFinish(p, l.waypoint_id, TRUE,
                                      IF k > 2 THEN SubSeq(segment, 2, k - 1) ELSE <<>>)
    /\ pc' = [pc EXCEPT ![p] = "idle"]
    /\ locals' = [locals EXCEPT ![p] = NoLocals]
    /\ gen_request' = [gen_request EXCEPT ![p] = NoRequest]

Next ==
    \/ \E r \in RouteIds, n \in 0..MaxWp : RegisterRoute(r, n)
    \/ \E p \in Procs, r \in RouteIds, w \in WpIds : HandleStart(p, r, w)
    \/ \E p \in Procs, outcome \in GenOutcomes : HandleResume(p, outcome)

Spec == Init /\ [][Next]_vars

\* ------------------------------------------------------ sequential replay
\* One handle_blocked_waypoint call run with nothing else in between, on a
\* route s = [waypoints, h]: the call's waypoint id, whether the generator
\* gave a usable segment, and the segment's interior.
RunAtomic(s, call, interior) ==
    LET blocked_idx == FindBlockedIdx(s.waypoints, call.waypoint_id)
    IN  IF blocked_idx = -1 THEN s
        ELSE [waypoints |->
                 IF call.committed
                 THEN NewWaypoints(s.waypoints, blocked_idx,
                                   <<TempOriginId>> \o interior \o <<RejoinId>>)
                 ELSE s.waypoints,
              h |-> MarkStatuses(s.h, s.waypoints, blocked_idx)]

View(s) ==
    [waypoints |-> s.waypoints,
     statuses |-> [i \in 1..Len(s.waypoints) |-> s.h[s.waypoints[i]].status]]

\* The route as it stood when the epoch opened.
EpochBase ==
    [waypoints |-> ep.base.waypoints,
     h |-> [w \in WpIds |->
              [status |-> IF \E i \in 1..Len(ep.base.waypoints) : ep.base.waypoints[i] = w
                          THEN ep.base.statuses[CHOOSE i \in 1..Len(ep.base.waypoints) :
                                                    ep.base.waypoints[i] = w]
                          ELSE "PENDING",
               point |-> heap[w].point,
               order |-> heap[w].order]]]

\* The interiors the generator may have answered with in a replay: any
\* sequence of the waypoints it created during the epoch.
EpochInteriors ==
    UNION {[1..k -> ep.base_id..(nextId - 1)] : k \in 0..(MaxSeg - 2)}

FinalAtDestination(route_id, waypoints) ==
    \/ waypoints = <<>>
    \/ heap[waypoints[Len(waypoints)]].point = active_routes[route_id].destination

SoloEpochClosed == ep.phase = "closed" /\ ep.clean /\ ep.n = 1
OverlapEpochClosed == ep.phase = "closed" /\ ep.clean /\ ep.n = 2

\* ------------------------------------------------------------------ claims

\* C1: a call that found the route and the waypoint and ended without a
\* commit (no usable bypass, or the generator raised) leaves the stored route
\* as it was before the call: same waypoint sequence, same lifecycle states.
C1_FailedCallLeavesRouteUntouched ==
    (SoloEpochClosed /\ ~ep.done[1].committed)
        => Stored(active_routes, heap, ep.route_id) = ep.base

\* C2: two overlapping calls on the same route id leave the stored route as
\* running the two calls one after the other, in some order, would.
C2_OverlappingCallsSerialize ==
    OverlapEpochClosed =>
        \E first \in 1..2 : \E i1 \in EpochInteriors, i2 \in EpochInteriors :
            View(RunAtomic(RunAtomic(EpochBase, ep.done[first], i1),
                           ep.done[3 - first], i2))
                = Stored(active_routes, heap, ep.route_id)

\* C3: a route returned by handle_blocked_waypoint(route_id, w) holds no
\* waypoint whose id is w.
C3_ReturnedRouteExcludesBlocked ==
    ret.kind = "Route" => ret.waypoint_id \notin Range(ret.waypoints)

\* C4: a step of a call on route id x leaves the registry entry of every
\* other id y as it was: same waypoint sequence, same waypoint states.
EntryUnchanged(y) ==
    /\ active_routes'[y] = active_routes[y]
    /\ active_routes[y] # NoRoute =>
           Stored(active_routes', heap', y) = Stored(active_routes, heap, y)

C4_OtherRoutesUnchanged ==
    [][\A x \in RouteIds, y \in RouteIds :
         (/\ x # y
          /\ \/ \E p \in Procs, w \in WpIds : HandleStart(p, x, w)
             \/ \E p \in Procs, outcome \in GenOutcomes :
                    /\ pc[p] = "awaiting"
                    /\ locals[p].route_id = x
                    /\ HandleResume(p, outcome))
         => EntryUnchanged(y)]_vars

\* A call on one route has committed while a call on the other route, which
\* is registered with waypoints, is suspended at the generator.
C4_Witness ==
    /\ ret.kind = "Route"
    /\ \E p \in Procs :
          /\ pc[p] = "awaiting"
          /\ locals[p].route_id # ret.route_id
          /\ Len(active_routes[locals[p].route_id].waypoints) > 0

\* C5: a call with an unregistered route id, or with a waypoint id that is
\* not in the registered route, returns None, sends nothing to the generator
\* and changes neither the registry nor any waypoint.
C5_NotFoundChangesNothing ==
    [][\A p \in Procs, r \in RouteIds, w \in WpIds :
         (/\ HandleStart(p, r, w)
          /\ \/ active_routes[r] = NoRoute
             \/ w \notin Range(active_routes[r].waypoints))
         => /\ ret' = RetNone
            /\ pc' = pc
            /\ gen_request' = gen_request
            /\ active_routes' = active_routes
            /\ heap' = heap]_vars

\* A call has returned None although no call ever found its waypoint, with a
\* route of several waypoints registered.
C5_Witness ==
    /\ calls > 0
    /\ ret = RetNone
    /\ ep = NoEpoch
    /\ \E r \in RouteIds :
          /\ active_routes[r] # NoRoute
          /\ Len(active_routes[r].waypoints) > 1

\* C10: when the route's final waypoint lay at the destination before a
\* successful call, the stored route's final waypoint lies there after it.
C10_FinalWaypointStaysAtDestination ==
    (SoloEpochClosed /\ ep.done[1].committed
        /\ FinalAtDestination(ep.route_id, ep.base.waypoints))
        => FinalAtDestination(ep.route_id, active_routes[ep.route_id].waypoints)

\* The order fields of a waypoint sequence are the 1-based positions.
OrdersMatchPositions(waypoints) ==
    \A i \in 1..Len(waypoints) : heap[waypoints[i]].order = i

\* C12: routes being registered with order fields equal to the 1-based
\* positions, every stored route has them so after any sequence of
\* successful handle_blocked_waypoint calls: waypoints[i].order = i + 1 at
\* every 0-based position i.
C12_OrdersMatchPositions ==
    \A r \in RouteIds :
        active_routes[r] # NoRoute => OrdersMatchPositions(active_routes[r].waypoints)

\* C13: after a successful handle_blocked_waypoint the stored route's metrics
\* describe the committed waypoint sequence: leg_distances has
\* len(waypoints) + 1 entries and distance is the sum of the leg distances
\* of the new sequence (stated for a committed sequence that has waypoints).
C13_MetricsDescribeCommittedSequence ==
    (ret.kind = "Route" /\ active_routes[ret.route_id].waypoints # <<>>) =>
        LET route == active_routes[ret.route_id]
            points == [i \in 1..Len(route.waypoints) |-> heap[route.waypoints[i]].point]
        IN  /\ Len(route.leg_distances) = Len(route.waypoints) + 1
            /\ route.distance = Sum(LegDistances(route.origin, points, route.destination))

\* C14: every registered route, registered with no ACTIVE waypoint, has at
\* most one waypoint in state ACTIVE after any sequence of calls.
C14_AtMostOneActive ==
    \A r \in RouteIds :
        active_routes[r] # NoRoute =>
            Cardinality({i \in 1..Len(active_routes[r].waypoints) :
                            heap[active_routes[r].waypoints[i]].status = "ACTIVE"}) <= 1

\* C15: a waypoint in state BLOCKED stays BLOCKED in every later step; a
\* waypoint left BLOCKED by a failed call does not become ACTIVE when the
\* waypoint after it is reported blocked.
C15_BlockedIsTerminal ==
    [][\A w \in WpIds :
         heap[w].status = "BLOCKED" => heap'[w].status = "BLOCKED"]_vars

\* C18: the three failure kinds are told apart by the outcome: not-found
\* calls return None (C5), so a call that found its route and waypoint never
\* returns None, neither when no usable bypass is produced nor when the
\* generator raises.
C18_FailureKindsDistinct ==
    [][\A p \in Procs :
         (pc[p] = "awaiting" /\ pc'[p] = "idle") => ret' # RetNone]_vars

\* C23: a successful call, no other call being in flight between its start
\* and its return, commits the original waypoints before the blocked index,
\* then the bypass waypoints without the first and the last (none for a
\* bypass of two waypoints or fewer), then the original waypoints after the
\* blocked index: nothing else added, dropped or reordered.
C23_CommitIsPrefixInteriorSuffix ==
    (SoloEpochClosed /\ ep.done[1].committed) =>
        LET original == ep.base.waypoints
            b == CHOOSE i \in 1..Len(original) :
                     /\ original[i] = ep.done[1].waypoint_id
                     /\ \A j \in 1..(i - 1) : original[j] # ep.done[1].waypoint_id
        IN  active_routes[ep.route_id].waypoints
                = SubSeq(original, 1, b - 1)
                  \o ep.done[1].interior
                  \o SubSeq(original, b + 1, Len(original))

\* A committed bypass with an interior waypoint, between a waypoint kept
\* before the blocked one and a waypoint kept after it.
C23_Witness ==
    /\ SoloEpochClosed
    /\ ep.done[1].committed
    /\ ep.done[1].interior # <<>>
    /\ Len(ep.base.waypoints) = 3
    /\ ep.done[1].waypoint_id = ep.base.waypoints[2]

\* ============================================================ route metrics
\* The cost functions of backend/models/route.py.
\* ------------------------------------------------------------------ values
NoAircraft == [none |-> TRUE]
\* An aircraft with its cruise speed (km/h), a fuel rate of 4 kg/h and a tank
\* of 5 litres.
Aircraft(speed) ==
    [cruise_speed_kmh |-> speed, fuel_consumption_rate_kg_hr |-> 4,
     fuel_capacity_liters |-> 5]
Aircrafts == {NoAircraft} \cup {Aircraft(speed) : speed \in 0..2}

\* weather_data: None, or a mapping without samples.
WeatherData == {"None", "empty"}

\* What a call returns: a number or None.  Times are in quarters of an hour.
Value(v) == [none |-> FALSE, v |-> v]
NoneValue == [none |-> TRUE, v |-> 0]

\* A number kept as the quotient it was computed as.
Ratio(num, den) == [num |-> num, den |-> den]

\* A weather sample of route.weather_data, with its vertical velocity in m/s;
\* the keys a sample lacks read as their defaults.
Sample(vertical_velocity) == [vertical_velocity_250hPa |-> vertical_velocity]
\* route.weather_data as the list of its values: no sample, one, or two.
RouteWeather == {<<>>, <<Sample(1)>>, <<Sample(0), Sample(1)>>}

\* Route.__init__ (route.py lines 17-48).
NewRoute(origin, destination, points) ==
    [origin |-> origin, destination |-> destination, waypoints |-> points,
     distance |-> 0, leg_distances |-> <<>>, leg_times |-> <<>>,
     estimated_time |-> 0, fuel_consumption |-> 0,
     fitness_score |-> Ratio(0, 1), weather_data |-> <<>>]

\* ------------------------------------------------------- the cost functions
\* Each gives the Route object after the call, whether the call raised, and
\* the value it returned.
Returned(r, value) == [route |-> r, raised |-> FALSE, value |-> value]
Raising(r) == [route |-> r, raised |-> TRUE, value |-> NoneValue]

\* Route.calculate_total_distance (lines 217-236).
calculate_total_distance(r) ==
    LET leg_distances == LegDistances(r.origin, r.waypoints, r.destination)
        total == Sum(leg_distances)
    IN  Returned([r EXCEPT !.leg_distances = leg_distances, !.distance = total],
                 Value(total))

\* The leg times of lines 121-147: distance over cruise speed per leg, zero
\* for a cruise speed of zero, a quarter of an hour added to the first and to
\* the last leg.
LegTimes(leg_distances, speed) ==
    [i \in 1..Len(leg_distances) |->
        (IF speed > 0 THEN (4 * leg_distances[i]) \div speed ELSE 0)
        + (IF i = 1 THEN 1 ELSE 0)
        + (IF i = Len(leg_distances) THEN 1 ELSE 0)]

\* calculate_leg_times without line 149: the stored leg_distances are kept.
calculate_leg_times_only(r, aircraft) ==
    IF aircraft = NoAircraft
    THEN Returned([r EXCEPT !.leg_times = <<>>], Value(0))
    ELSE LET leg_distances == LegDistances(r.origin, r.waypoints, r.destination)
         IN  Returned([r EXCEPT !.leg_times =
                                   LegTimes(leg_distances, aircraft.cruise_speed_kmh)],
                      Value(0))

\* Route.calculate_leg_times (lines 108-151); the list it returns is the
\* stored leg_times.
calculate_leg_times(r, aircraft) ==
    IF aircraft = NoAircraft
    THEN Returned([r EXCEPT !.leg_times = <<>>], Value(0))
    ELSE LET leg_distances == LegDistances(r.origin, r.waypoints, r.destination)
         IN  Returned([r EXCEPT !.leg_distances = leg_distances,
                                !.leg_times =
                                   LegTimes(leg_distances, aircraft.cruise_speed_kmh)],
                      Value(0))

\* Route.calculate_estimated_time (lines 60-106) on a route whose weather
\* samples, if any, carry no wind: distance over cruise speed plus half an
\* hour.
calculate_estimated_time(r, aircraft) ==
    IF aircraft = NoAircraft \/ r.distance = 0
    THEN Returned(r, NoneValue)
    ELSE IF aircraft.cruise_speed_kmh = 0
    THEN Raising(r)   \* ZeroDivisionError at line 70
    ELSE LET total_time_hours == (4 * r.distance) \div aircraft.cruise_speed_kmh + 2
         IN  Returned([r EXCEPT !.estimated_time = total_time_hours],
                      Value(total_time_hours))

\* Route.calculate_fuel_consumption (lines 159-215): with no wind sample
\* ("empty": a mapping whose samples, if any, carry no wind) the wind factor
\* stays 1 and the fuel is half of hours times rate.
calculate_fuel_consumption(r, aircraft, weather_data) ==
    IF aircraft = NoAircraft
    THEN Raising(r)   \* AttributeError at line 163
    ELSE IF aircraft.cruise_speed_kmh = 0
    THEN Raising(r)   \* ZeroDivisionError at line 163
    ELSE IF weather_data = "None" /\ Len(r.waypoints) >= 2
    THEN Raising(r)   \* TypeError at line 186
    ELSE LET total_fuel_kg ==
                 ((r.distance * aircraft.fuel_consumption_rate_kg_hr)
                      \div aircraft.cruise_speed_kmh) \div 2
         IN  Returned([r EXCEPT !.fuel_consumption = total_fuel_kg],
                      Value(total_fuel_kg))

\* calculate_fitness_score taking the distance-only exit for no sample only.
IncompleteWeatherEmptyOnly(weather_data) == weather_data = <<>>

\* Lines 322 and 333: "not self.weather_data" or fewer than two samples.
IncompleteWeather(weather_data) ==
    weather_data = <<>> \/ Len(weather_data) < 2

\* Lines 338-476 for samples that carry a vertical velocity only (no jet
\* stream, so the ground speed is the airspeed of 900 km/h): the score as the
\* terms it is the sum of, the weights counted in tenths.
WeightedFitness(r, aircraft, weather_weight, distance_weight) ==
    LET weather_nodes == r.weather_data
        rate == IF aircraft # NoAircraft
                THEN aircraft.fuel_consumption_rate_kg_hr ELSE 3000
        \* fuel_capacity_kg in tenths of a kg (0.8 kg per litre)
        capacity == IF aircraft # NoAircraft
                    THEN 8 * aircraft.fuel_capacity_liters ELSE 700000
        \* fuel_consumption_kg = rate * distance / 900
        over == 10 * rate * r.distance - capacity * 900
        turbulence_risk ==
            Cardinality({i \in 1..Len(weather_nodes) :
                            2 * weather_nodes[i].vertical_velocity_250hPa > 1})
    IN  [weather |-> Ratio(weather_weight * 2 * turbulence_risk,
                           10 * Len(weather_nodes)),
         fuel |-> Ratio(distance_weight * rate * r.distance, 10 * 900 * 10000),
         fuel_penalty |-> IF over > 0 THEN Ratio(10 * over, capacity * 900)
                          ELSE Ratio(0, 1),
         long_route |-> IF r.distance > 5000 THEN Ratio(r.distance - 5000, 1000)
                        ELSE Ratio(0, 1)]

\* Route.calculate_fitness_score (lines 308-479).
calculate_fitness_score(r, aircraft, weather_weight, distance_weight) ==
    LET measured == IF r.distance <= 0 THEN calculate_total_distance(r).route ELSE r
        fitness_score ==
            IF IncompleteWeather(measured.weather_data)
            THEN Ratio(measured.distance, 1000)
            ELSE WeightedFitness(measured, aircraft, weather_weight, distance_weight)
    IN  Returned([measured EXCEPT !.fitness_score = fitness_score],
                 Value(fitness_score))


\* ================================================================ rerouter
\* Reroute calls of a chain.
MaxReroutes == 2
\* Waypoints of the chain's first route.
MaxOrig == 2
\* Alternative routes supplied to one reroute call.
MaxAlts == 2

\* ------------------------------------------------------------------ values
\* A path type is a string; pre counts its leading "rerouted_" prefixes.
PathType(base) == [pre |-> 0, base |-> base]
Direct == PathType("direct")
\* f"rerouted_{path_type}" (line 423)
ReroutedType(path_type) == [path_type EXCEPT !.pre = @ + 1]

\* A waypoint name: "WP<n>_<tag>" splits at "_" into two parts, a plain name
\* is one part.
WPName(n, tag) == [parts |-> 2, n |-> n, tag |-> tag]
PlainName(text) == [parts |-> 1, n |-> 0, tag |-> text]
\* name.split("_")[-1] if the name has more than one part, else "alt"
\* (lines 371-374 and 395-398)
RouteTypeOf(name) == IF name.parts > 1 THEN name.tag ELSE "alt"

\* Ids: the uuid4 values drawn by the rerouter are numbered; the waypoints
\* of the inputs carry ids of their own.
Uuid(k) == [src |-> "uuid4", n |-> k]
InputId(src, k) == [src |-> src, n |-> k]

Waypoint(id, name, lat, lon, order) ==
    [id |-> id, name |-> name, latitude |-> lat, longitude |-> lon,
     order |-> order, status |-> "PENDING"]

NoPosition == [none |-> TRUE]

\* ------------------------------------------------------- metrics of a route
\* An estimated time in hours, kept as a quotient; None for the None that
\* calculate_estimated_time may hand back (line 462).
NoTime == [none |-> TRUE]
\* "if route.estimated_time": neither None nor zero.
HasTime(route) == route.estimated_time # NoTime /\ route.estimated_time.num # 0
\* What calculate_estimated_time returns, quarters of an hour, as hours.
Hours(value) == IF value.none THEN NoTime ELSE Ratio(value.v, 4)

\* The fields Route.__init__ sets when they are not passed (route.py lines
\* 39-48): no distance, no leg arrays, no time, no fuel, no weather sample.
Unmeasured ==
    [distance |-> 0, leg_distances |-> <<>>, leg_times |-> <<>>,
     estimated_time |-> Ratio(0, 1), fuel_consumption |-> 0,
     fitness_score |-> Ratio(0, 1), weather_data |-> <<>>]

\* The aircraft bound to a weather-aware rerouter; a rerouter that is not
\* weather-aware is one built without a weather service and without an
\* aircraft (lines 18-25).
BoundAircraft(aware) == IF aware THEN Aircraft(2) ELSE NoAircraft

\* What weather_service.get_weather_for_route answers (lines 68-71).
ServiceWeather == <<Sample(0), Sample(1)>>

\* distance / default_speed + 0.5 with default_speed = 900 (lines 279-283 and
\* 465-467).
DefaultTime(distance) == Ratio(distance + 450, 900)

\* Lines 436-467 of _create_rerouted_path on the Route just constructed: the
\* weather samples carried over, distance and fitness computed, and the
\* estimated time taken from the current route, computed with the aircraft,
\* or defaulted.
Measure(route, current, alternative_route, aircraft) ==
    LET weather_data == IF current.weather_data # <<>> THEN current.weather_data
                        ELSE alternative_route.weather_data
        \* lines 447-467, on the route with its distance and fitness computed
        timed(r2) ==
            LET r3 == IF HasTime(current)
                      THEN [r2 EXCEPT !.estimated_time = current.estimated_time]
                      ELSE r2
            IN  IF aircraft # NoAircraft /\ r3.weather_data # <<>>
                THEN LET r4 == calculate_fuel_consumption(r3, aircraft, "empty").route
                     IN  [r4 EXCEPT !.estimated_time =
                                        Hours(calculate_estimated_time(r4, aircraft).value)]
                ELSE IF ~HasTime(r3)
                THEN [r3 EXCEPT !.estimated_time = DefaultTime(r3.distance)]
                ELSE r3
    IN  CHOOSE rerouted_route \in
            {timed(r2) :
                r2 \in {calculate_fitness_score(r1, NoAircraft, 6, 4).route :
                    r1 \in {calculate_total_distance(r0).route :
                        r0 \in {[route EXCEPT !.weather_data = weather_data]}}}} : TRUE

\* Lines 66-76 of evaluate_alternatives on a candidate: the weather samples
\* fetched when it has none, and its fuel computed with them.
Evaluated(rerouted, aircraft) ==
    LET weather_data == IF rerouted.weather_data = <<>> THEN ServiceWeather
                        ELSE rerouted.weather_data
    IN  calculate_fuel_consumption([rerouted EXCEPT !.weather_data = weather_data],
                                   aircraft, "empty").route

\* Lines 270-283 of reroute: the estimated time of a route that has none.
Finished(rerouted_route, aircraft) ==
    IF HasTime(rerouted_route) THEN rerouted_route
    ELSE IF aircraft # NoAircraft
    THEN [rerouted_route EXCEPT !.estimated_time =
              Hours(calculate_estimated_time(rerouted_route, aircraft).value)]
    ELSE [rerouted_route EXCEPT !.estimated_time = DefaultTime(rerouted_route.distance)]

\* ------------------------------------------------------------ pure helpers
\* The first position with the least key, 0-based; -1 for no position
\* (the "<" scans of lines 46-51, 227-232, 312-319).
FirstLeast(keys) ==
    IF keys = <<>> THEN -1
    ELSE (CHOOSE i \in 1..Len(keys) :
              /\ \A j \in 1..Len(keys) : keys[i] <= keys[j]
              /\ \A j \in 1..(i - 1) : keys[j] > keys[i]) - 1

\* Lines 46-51: the waypoint of the alternative nearest to the position.
NearestIndex(position, waypoints) ==
    FirstLeast([i \in 1..Len(waypoints) |-> Dist(position, waypoints[i])])

\* Lines 303-307: the loop keeps the last position whose id matches.
IndexById(waypoints, id) ==
    LET hits == {i \in 1..Len(waypoints) : waypoints[i].id = id}
    IN  IF hits = {} THEN -1 ELSE (CHOOSE i \in hits : \A j \in hits : j <= i) - 1

\* Lines 157-166: the path types a reroute of current excludes.
UsedRouteTypesAlways(current) == <<current.path_type>>

UsedRouteTypes(current) ==
    IF current.reroute_history = <<>>
    THEN <<current.path_type>>
    ELSE [i \in 1..Len(current.reroute_history) |-> current.reroute_history[i][2]]

\* Lines 35-39 and 216-220: the alternative is skipped.
Skipped(used, alt_route) ==
    alt_route.path_type \in Range(used) \/ alt_route.path_type = Direct

\* Lines 359-363: a waypoint of the retained prefix.
PrefixCopy(wp, order) == [wp EXCEPT !.order = order]

\* SuffixCopy without line 368: the copy keeps the id of its source.
SuffixCopyKeepsId(wp, new_id, order) ==
    [wp EXCEPT !.name = WPName(order, RouteTypeOf(wp.name)), !.order = order]

\* SuffixCopy without line 377: the copy keeps the order of its source.
SuffixCopyKeepsOrder(wp, new_id, order) ==
    [wp EXCEPT !.id = new_id, !.name = WPName(order, RouteTypeOf(wp.name))]

\* Lines 366-378: a waypoint of the suffix.
SuffixCopy(wp, new_id, order) ==
    [wp EXCEPT !.id = new_id,
               !.name = WPName(order, RouteTypeOf(wp.name)),
               !.order = order]

\* Lines 380-408: the waypoint appended when the sequence does not end at the
\* coordinates of the current route's last waypoint.
DestinationCopy(destination_waypoint, combined_waypoints, new_id) ==
    LET order == Len(combined_waypoints) + 1
    IN  [destination_waypoint EXCEPT
            !.id = new_id,
            !.order = order,
            !.name = IF combined_waypoints # <<>>
                     THEN WPName(order,
                              RouteTypeOf(combined_waypoints[Len(combined_waypoints)].name))
                     ELSE WPName(order, "dest")]

\* RerouteHistory losing the entries of the current route.
RerouteHistoryRestarted(current, blocked_waypoint, alternative_route) ==
    <<<<blocked_waypoint.name, alternative_route.path_type>>>>

\* Lines 414-434: the history of the new route, a new list made of the
\* current route's entries and the record of this reroute.
RerouteHistory(current, blocked_waypoint, alternative_route) ==
    LET reroute_record == <<blocked_waypoint.name, alternative_route.path_type>>
    IN  IF current.reroute_history # <<>>
        THEN current.reroute_history \o <<reroute_record>>
        ELSE <<reroute_record>>

\* _create_rerouted_path (lines 287-472), drawing its uuid4 values from uid0.
\* Gives [raised |-> TRUE] for the IndexError of line 381 on a current route
\* without waypoints.
CreateReroutedPath(current, blocked_waypoint, current_position, alternative_route, target_index, uid0, aircraft) ==
    LET wps == current.waypoints
        by_id == IndexById(wps, current_position.id)
        current_pos_index ==
            IF by_id # -1 THEN by_id ELSE NearestIndex(current_position, wps)
        blocked_index == IndexById(wps, blocked_waypoint.id)
        detour == blocked_index # -1 /\ current_pos_index < blocked_index
        waypoints_initial == Take(wps, current_pos_index + 1)
        alt_waypoints == alternative_route.waypoints
        join_index == IF target_index + 2 >= Len(alt_waypoints)
                      THEN Len(alt_waypoints) - 1
                      ELSE target_index + 2
        waypoints_alt == IF detour
                         THEN Drop(alt_waypoints, join_index)
                         ELSE Drop(wps, current_pos_index + 1)
        next_order == Len(waypoints_initial) + 1
        combined_waypoints ==
            [i \in 1..Len(waypoints_initial) |-> PrefixCopy(waypoints_initial[i], i)]
            \o [i \in 1..Len(waypoints_alt) |->
                   SuffixCopy(waypoints_alt[i], Uuid(uid0 + i), next_order + i - 1)]
        uid1 == uid0 + Len(waypoints_alt)
    IN  IF wps = <<>> THEN [raised |-> TRUE]
        ELSE
        LET destination_waypoint == wps[Len(wps)]
            last_wp == combined_waypoints[Len(combined_waypoints)]
            is_destination_included ==
                /\ combined_waypoints # <<>>
                /\ last_wp.latitude = destination_waypoint.latitude
                /\ last_wp.longitude = destination_waypoint.longitude
            final_waypoints ==
                IF is_destination_included THEN combined_waypoints
                ELSE Append(combined_waypoints,
                            DestinationCopy(destination_waypoint, combined_waypoints,
                                            Uuid(uid1 + 1)))
            uid2 == IF is_destination_included THEN uid1 ELSE uid1 + 1
        IN  [raised |-> FALSE,
             prefix_len |-> Len(waypoints_initial),
             detour |-> detour,
             uid |-> uid2 + 1,
             route |->
               Measure([id |-> Uuid(uid2 + 1),
                        name |-> ReroutedType(current.name),
                        origin |-> current.origin,
                        destination |-> current.destination,
                        waypoints |-> final_waypoints,
                        path_type |-> ReroutedType(alternative_route.path_type),
                        optimization_method |-> "ppo",
                        reroute_history |->
                            RerouteHistory(current, blocked_waypoint, alternative_route)]
                       @@ Unmeasured,
                       current, alternative_route, aircraft)]

\* Lines 169-183: the position a call without current_position starts from,
\* the waypoint before the blocked one, which it marks ACTIVE in the current
\* route.  found is FALSE for the two "return None" exits.
ResolvePosition(current, blocked_waypoint, current_position) ==
    IF current_position # NoPosition
    THEN [found |-> TRUE, position |-> current_position, current |-> current]
    ELSE LET wps == current.waypoints
             hits == {i \in 1..Len(wps) : wps[i] = blocked_waypoint}
             blocked_index == IF hits = {} THEN -1 ELSE Min(hits) - 1
         IN  IF blocked_index > 0
             THEN LET active == [wps[blocked_index] EXCEPT !.status = "ACTIVE"]
                  IN  [found |-> TRUE, position |-> active,
                       current |-> [current EXCEPT !.waypoints[blocked_index] = active]]
             ELSE [found |-> FALSE, position |-> NoPosition, current |-> current]

\* The positions, in the order supplied, of the alternatives that are not
\* skipped and have a nearest waypoint (lines 33-54 and 214-242).
Survivors(used, alternative_routes) ==
    SelectSeq([i \in 1..Len(alternative_routes) |-> i],
              LAMBDA i : /\ ~Skipped(used, alternative_routes[i])
                         /\ alternative_routes[i].waypoints # <<>>)

\* Ranked with list.sort replaced by a sort that puts the later of two equal
\* entries first.
RankedLaterFirst(survivors, keys) ==
    LET n == Len(survivors)
        before(k, j) == \/ keys[survivors[k]] < keys[survivors[j]]
                        \/ keys[survivors[k]] = keys[survivors[j]] /\ k > j
        rank(j) == Cardinality({k \in 1..n : before(k, j)}) + 1
    IN  [r \in 1..n |-> survivors[CHOOSE j \in 1..n : rank(j) = r]]

\* scores.sort(key=...) of lines 125 and 250: the survivors in ascending
\* order of their keys, list.sort keeping entries of equal key in the order
\* they were appended in.
Ranked(survivors, keys) ==
    LET n == Len(survivors)
        before(k, j) == \/ keys[survivors[k]] < keys[survivors[j]]
                        \/ keys[survivors[k]] = keys[survivors[j]] /\ k < j
        rank(j) == Cardinality({k \in 1..n : before(k, j)}) + 1
    IN  [r \in 1..n |-> survivors[CHOOSE j \in 1..n : rank(j) = r]]

\* alternatives[0] and reroute_targets[0] (lines 197 and 251).
BestOf(survivors, keys) == Ranked(survivors, keys)[1]

RECURSIVE UidBefore(_, _, _, _, _, _)
\* evaluate_alternatives splices every survivor in turn (lines 57-64): the
\* uuid4 values drawn before the j-th survivor is spliced.
UidBefore(j, survivors, current, blocked_waypoint, position, alternative_routes) ==
    IF j = 1 THEN 0
    ELSE LET alt == alternative_routes[survivors[j - 1]]
             one == CreateReroutedPath(current, blocked_waypoint, position, alt,
                                       NearestIndex(position, alt.waypoints), 0,
                                       NoAircraft)
         IN  one.uid + UidBefore(j - 1, survivors, current, blocked_waypoint,
                                 position, alternative_routes)

\* reroute (lines 129-285) on a rerouter whose used_route_types is used0 and
\* which has drawn uid0 uuid4 values.  scores[i] is the total score
\* evaluate_alternatives computes for the i-th alternative from the weather
\* and the aircraft.  The result names the return value (kind), the rerouter's
\* and the current route's state after the call, and the alternative chosen.
RerouteCall(used0, aware, current, blocked_waypoint, current_position, alternative_routes, scores, uid0) ==
    LET unchanged == [kind |-> "None", used |-> used0, uid |-> uid0, current |-> current]
        used == UsedRouteTypes(current)
        resolved == ResolvePosition(current, blocked_waypoint, current_position)
        position == resolved.position
        survivors == Survivors(used, alternative_routes)
        nearest(i) == NearestIndex(position, alternative_routes[i].waypoints)
        distances == [i \in 1..Len(alternative_routes) |->
                         IF alternative_routes[i].waypoints = <<>> THEN 0
                         ELSE Dist(position,
                                   alternative_routes[i].waypoints[nearest(i) + 1])]
        keys == IF aware THEN scores ELSE distances
        best == BestOf(survivors, keys)
        place == CHOOSE j \in 1..Len(survivors) : survivors[j] = best
        start == IF aware
                 THEN uid0 + UidBefore(place, survivors, resolved.current,
                                       blocked_waypoint, position, alternative_routes)
                 ELSE uid0
        aircraft == BoundAircraft(aware)
        spliced == CreateReroutedPath(resolved.current, blocked_waypoint, position,
                                      alternative_routes[best], nearest(best), start,
                                      aircraft)
        finish == IF aware
                  THEN uid0 + UidBefore(Len(survivors) + 1, survivors, resolved.current,
                                        blocked_waypoint, position, alternative_routes)
                  ELSE spliced.uid
    IN  IF alternative_routes = <<>> THEN unchanged
        ELSE IF ~resolved.found
        THEN [unchanged EXCEPT !.used = used]
        ELSE IF survivors = <<>>
        THEN [unchanged EXCEPT !.used = used, !.current = resolved.current]
        ELSE IF resolved.current.waypoints = <<>>
        THEN [kind |-> "Raised", used |-> used, uid |-> uid0, current |-> resolved.current]
        ELSE [kind |-> "Route",
              used |-> Append(used, alternative_routes[best].path_type),
              uid |-> finish,
              current |-> resolved.current,
              chosen |-> alternative_routes[best],
              prefix_len |-> spliced.prefix_len,
              detour |-> spliced.detour,
              target_index |-> nearest(best),
              position |-> position,
              keys |-> [i \in 1..Len(alternative_routes) |-> keys[i]],
              ranked |-> Ranked(survivors, keys),
              route |-> IF aware THEN Evaluated(spliced.route, aircraft)
                        ELSE Finished(spliced.route, aircraft)]

\* ------------------------------------------------- inputs of the rerouter
\* Waypoints of a supplied alternative route that has any.
AltLen == 3

RouteName(text) == [pre |-> 0, base |-> text]
Airport(lat, lon) == [latitude |-> lat, longitude |-> lon]

\* A route as Route.__init__ / Route.from_dict build it from a request
\* (routes_controller.py lines 150-180): n waypoints along longitude 0, no
\* reroute history, the destination at latitude dest.
InitialRoute(path_type, n, dest) ==
    calculate_total_distance(
        [id |-> InputId("route", 0),
         name |-> RouteName("flight"),
         origin |-> Airport(0, 0),
         destination |-> Airport(dest, 0),
         waypoints |-> [i \in 1..n |->
                          Waypoint(InputId("current", i), WPName(i, path_type.base),
                                   i, 0, i)],
         path_type |-> path_type,
         optimization_method |-> "genetic",
         reroute_history |-> <<>>] @@ Unmeasured).route

InitialRoutes ==
    {InitialRoute(t, n, d) : t \in {Direct, PathType("left")},
                             n \in 0..MaxOrig,
                             d \in MaxOrig..(MaxOrig + 1)}

\* The alternatives a request supplies: one route per path type, its
\* waypoints along a longitude of its own; the names of the "right" route
\* have no "_" part, and the "left" route ends (joins) at the last fix of a
\* current route of MaxOrig waypoints.
AltShapes ==
    {[path_type |-> Direct, tag |-> "direct", lon |-> 3, plain |-> FALSE,
      joins |-> FALSE],
     [path_type |-> PathType("left"), tag |-> "left", lon |-> 1, plain |-> FALSE,
      joins |-> TRUE],
     [path_type |-> PathType("right"), tag |-> "right", lon |-> 0 - 1, plain |-> TRUE,
      joins |-> FALSE],
     [path_type |-> ReroutedType(PathType("left")), tag |-> "rerouted_left",
      lon |-> 2, plain |-> FALSE, joins |-> FALSE]}

AltRoute(shape, k) ==
    calculate_total_distance(
    [id |-> InputId(shape.tag, 0),
     name |-> RouteName(shape.tag),
     origin |-> Airport(0, 0),
     destination |-> Airport(MaxOrig, 0),
     waypoints |-> [i \in 1..k |->
                      Waypoint(InputId(shape.tag, i),
                               IF shape.plain THEN PlainName(shape.tag)
                               ELSE WPName(i, shape.tag),
                               IF shape.joins /\ i = k THEN MaxOrig ELSE i,
                               IF shape.joins /\ i = k THEN 0 ELSE shape.lon,
                               i)],
     path_type |-> shape.path_type,
     optimization_method |-> "genetic",
     reroute_history |-> <<>>] @@ Unmeasured).route

AltRoutes ==
    {AltRoute(s, AltLen) : s \in AltShapes}
    \cup {AltRoute(s, 0) : s \in {t \in AltShapes : t.plain}}

\* Lists of up to MaxAlts different alternatives, in any order.
AltLists ==
    {l \in UNION {[1..k -> AltRoutes] : k \in 0..MaxAlts} :
        \A i, j \in 1..Len(l) : i # j => l[i] # l[j]}

\* A waypoint that is not on the current route.
ForeignWaypoint == Waypoint(InputId("foreign", 1), PlainName("foreign"), 1, 1, 1)

\* The "CurrentPosition" waypoint the controller builds from the aircraft's
\* coordinates (routes_controller.py lines 190-205).
SyntheticPosition == Waypoint(InputId("position", 1), PlainName("CurrentPosition"), 0, 1, 0)

\* The scores of the alternatives: all equal, or one of the later ones lower
\* than the rest.
EvenScores == [i \in 1..MaxAlts |-> 2]
ScoreLists ==
    {EvenScores} \cup {[EvenScores EXCEPT ![j] = 1] : j \in 2..MaxAlts}

\* ------------------------------------------------ actions of the rerouter
\* PPORerouter.__init__ (lines 18-25) and the route the first call is made
\* on.  weather_aware: a weather service and an aircraft are bound.
InitChain ==
    /\ AdjusterInit
    /\ current_route \in InitialRoutes
    /\ used_route_types = <<>>
    /\ weather_aware \in BOOLEAN
    /\ uid = 0
    /\ attempts = 0
    /\ reroutes = 0
    /\ last = [none |-> TRUE]
    /\ CostUnused
    /\ RaceUnused

\* The path types the specification excludes for a call on current: its own,
\* those of its history, and "direct".
SpecExcluded(current) ==
    {current.path_type, Direct}
    \cup {current.reroute_history[i][2] : i \in 1..Len(current.reroute_history)}

\* The observer keeps the ranking a successful call made (the position, the
\* alternatives supplied, their keys and the sorted list) for the last call
\* of a chain only.
NoRanking == [none |-> TRUE]

\* One reroute call (lines 129-285) on the route the previous call left or
\* returned.  last records the call for the properties.
Reroute(blocked_waypoint, current_position, alternative_routes, scores) ==
    /\ attempts < MaxReroutes
    /\ attempts' = attempts + 1
    /\ \E r \in {RerouteCall(used_route_types, weather_aware, current_route,
                             blocked_waypoint, current_position,
                             alternative_routes, scores, uid)} :
           /\ used_route_types' = r.used
           /\ uid' = r.uid
           /\ current_route' = IF r.kind = "Route" THEN r.route ELSE r.current
           /\ reroutes' = IF r.kind = "Route" THEN reroutes + 1 ELSE reroutes
           /\ last' = [kind |-> r.kind,
                       original |-> current_route,
                       input |-> r.current,
                       blocked |-> blocked_waypoint,
                       all_excluded |->
                           \A i \in 1..Len(alternative_routes) :
                               alternative_routes[i].path_type
                                   \in SpecExcluded(current_route),
                       chosen |-> IF r.kind = "Route" THEN r.chosen ELSE NoRoute,
                       prefix_len |-> IF r.kind = "Route" THEN r.prefix_len ELSE 0,
                       detour |-> IF r.kind = "Route" THEN r.detour ELSE FALSE,
                       target_index |-> IF r.kind = "Route" THEN r.target_index
                                        ELSE 0 - 1,
                       ranking |->
                           IF r.kind = "Route" /\ attempts + 1 = MaxReroutes
                           THEN [position |-> r.position,
                                 alternatives |-> alternative_routes,
                                 keys |-> r.keys,
                                 ranked |-> r.ranked]
                           ELSE NoRanking]
    /\ UNCHANGED weather_aware
    /\ UNCHANGED <<adj_vars, cost_vars, race_vars>>

\* The waypoints of the current route a request names as blocked or as the
\* aircraft's position.
Named(current) == Range(Take(current.waypoints, MaxOrig))

NextChain ==
    \E blocked_waypoint \in Named(current_route) \cup {ForeignWaypoint},
       current_position \in Named(current_route) \cup {NoPosition, SyntheticPosition},
       alternative_routes \in AltLists,
       scores \in IF weather_aware THEN ScoreLists ELSE {EvenScores} :
        Reroute(blocked_waypoint, current_position, alternative_routes, scores)

SpecChain == InitChain /\ [][NextChain]_vars

\* ------------------------------------------------- claims on the rerouter
Rerouted == "kind" \in DOMAIN last /\ last.kind = "Route"

Ids(waypoints) == {waypoints[i].id : i \in 1..Len(waypoints)}

\* C6: the final waypoint of every route the path splicer produces has the
\* latitude and the longitude of the route's declared destination.
C6_SplicedRouteEndsAtDestination ==
    Rerouted =>
        LET waypoints == current_route.waypoints
            final == waypoints[Len(waypoints)]
        IN  /\ waypoints # <<>>
            /\ final.latitude = current_route.destination.latitude
            /\ final.longitude = current_route.destination.longitude

\* C7: in a spliced route every waypoint of the retained prefix has the id
\* and the name of the original waypoint at its place, and every waypoint
\* after the prefix (an appended destination waypoint included) has an id
\* that no waypoint of the original route, no waypoint of the alternative
\* route and no other waypoint of the spliced route has.
C7_PrefixKeepsIdentitySuffixIsFresh ==
    Rerouted =>
        LET original == last.original.waypoints
            alternative == last.chosen.waypoints
            spliced == current_route.waypoints
            n == last.prefix_len
        IN  /\ n <= Len(spliced)
            /\ \A i \in 1..n :
                   /\ spliced[i].id = original[i].id
                   /\ spliced[i].name = original[i].name
            /\ \A i \in (n + 1)..Len(spliced) :
                   /\ spliced[i].id \notin Ids(original)
                   /\ spliced[i].id \notin Ids(alternative)
                   /\ \A j \in 1..Len(spliced) :
                          j # i => spliced[j].id # spliced[i].id

\* A detour through the alternative behind a prefix that is kept, ending in
\* an appended destination waypoint: two waypoints after the prefix.
C7_Witness ==
    /\ Rerouted
    /\ last.detour
    /\ last.prefix_len >= 1
    /\ Len(current_route.waypoints) >= last.prefix_len + 2

\* C8: after N successful reroute calls, each made on the route the previous
\* one returned, the route's reroute_history has N entries, no two of them
\* with the same alternative path type and none with the path type "direct".
C8_HistoryCountsDistinctTypes ==
    LET history == current_route.reroute_history
    IN  /\ Len(history) = reroutes
        /\ \A i, j \in 1..Len(history) : i # j => history[i][2] # history[j][2]
        /\ \A i \in 1..Len(history) : history[i][2] # Direct

\* A chain of MaxReroutes successful calls.
C8_Witness ==
    /\ reroutes = MaxReroutes
    /\ reroutes >= 2
    /\ Len(current_route.reroute_history) = reroutes

\* C9: whatever the length of the current route's history, a reroute selects
\* no alternative whose path type is the current route's own, is in the
\* current route's history or is "direct"; when every supplied alternative is
\* of that kind the call ends without an alternative.
C9_ExcludedTypesNeverSelected ==
    /\ Rerouted => last.chosen.path_type \notin SpecExcluded(last.original)
    /\ ("kind" \in DOMAIN last /\ last.all_excluded) => last.kind = "None"

\* C11: a successful reroute returns a route whose history is the input
\* route's history, entries and order kept, with one entry appended at the
\* end, (name of the blocked waypoint, path type of the chosen alternative);
\* the input route's own history is as it was.
C11_HistoryAppendsOneEntry ==
    Rerouted =>
        LET before == last.original.reroute_history
            after == current_route.reroute_history
        IN  /\ Len(after) = Len(before) + 1
            /\ \A i \in 1..Len(before) : after[i] = before[i]
            /\ after[Len(after)] = <<last.blocked.name, last.chosen.path_type>>
            /\ last.input.reroute_history = before

\* A reroute of a route that has a history already.
C11_Witness ==
    /\ Rerouted
    /\ last.original.reroute_history # <<>>

\* C16: a route returned by a successful reroute does not contain the blocked
\* waypoint, whatever the current position: no waypoint of it has the blocked
\* waypoint's id, and none is a copy of the blocked waypoint (a waypoint at
\* the coordinates of a blocked waypoint of the input route).
C16_ResultExcludesBlocked ==
    Rerouted =>
        \A i \in 1..Len(current_route.waypoints) :
            LET wp == current_route.waypoints[i]
            IN  /\ wp.id # last.blocked.id
                /\ last.blocked.id \in Ids(last.original.waypoints) =>
                       ~(/\ wp.latitude = last.blocked.latitude
                         /\ wp.longitude = last.blocked.longitude)

\* C24: when the current position's index is lower than the blocked
\* waypoint's index in the original route, the spliced sequence is
\* original[0 .. current_index] followed by copies of alternative[j ..],
\* j = min(target_index + 2, len(alternative) - 1), and nothing else: the
\* suffix has a waypoint, and neither the blocked waypoint nor an original
\* waypoint after the current position is in the sequence.
C24_UpstreamSpliceIsPrefixThenDetour ==
    (Rerouted /\ last.detour) =>
        LET original == last.input.waypoints
            alternative == last.chosen.waypoints
            spliced == current_route.waypoints
            n == last.prefix_len
            j == IF last.target_index + 2 < Len(alternative) - 1
                 THEN last.target_index + 2 ELSE Len(alternative) - 1
            suffix == SubSeq(alternative, j + 1, Len(alternative))
        IN  /\ suffix # <<>>
            /\ Len(spliced) = n + Len(suffix)
            /\ \A i \in 1..n : spliced[i].id = original[i].id
            /\ \A i \in 1..Len(suffix) :
                   /\ spliced[n + i].latitude = suffix[i].latitude
                   /\ spliced[n + i].longitude = suffix[i].longitude
            /\ last.blocked.id \notin Ids(spliced)
            /\ \A i \in (n + 1)..Len(original) : original[i].id \notin Ids(spliced)

\* C25: in every spliced route, on the upstream branch and on the branch
\* without a detour, with a destination waypoint appended or not, the waypoint
\* at 0-based position i has order i + 1: the orders run from 1 without a gap
\* and without a duplicate.
C25_SplicedOrdersAreContiguous ==
    Rerouted =>
        \A i \in 1..Len(current_route.waypoints) : current_route.waypoints[i].order = i

\* A detour whose waypoint had another order in the alternative route, with a
\* destination waypoint appended behind it.
C25_Witness ==
    /\ Rerouted
    /\ last.detour
    /\ Len(current_route.waypoints) = last.prefix_len + 2
    /\ current_route.waypoints[last.prefix_len + 1].order
           # last.chosen.waypoints[Len(last.chosen.waypoints)].order

\* C26: the ranking lists the surviving alternatives (not skipped, with a
\* waypoint) in ascending order of score, two of equal score in the order
\* they were supplied in, and reroute returns the route spliced from the
\* first entry; without weather awareness the score of an alternative is the
\* distance from the position to its nearest waypoint.
C26_RankingIsStableAndFirstWins ==
    (Rerouted /\ last.ranking # NoRanking) =>
        LET alternatives == last.ranking.alternatives
            ranked == last.ranking.ranked
            keys == last.ranking.keys
            surviving == {i \in 1..Len(alternatives) :
                             /\ alternatives[i].path_type # Direct
                             /\ alternatives[i].path_type
                                    \notin Range(UsedRouteTypes(last.original))
                             /\ alternatives[i].waypoints # <<>>}
        IN  /\ Range(ranked) = surviving
            /\ Len(ranked) = Cardinality(surviving)
            /\ \A a, b \in 1..Len(ranked) :
                   a < b => \/ keys[ranked[a]] < keys[ranked[b]]
                            \/ /\ keys[ranked[a]] = keys[ranked[b]]
                               /\ ranked[a] < ranked[b]
            /\ ~weather_aware =>
                   \A i \in surviving :
                       keys[i] = Min({Dist(last.ranking.position,
                                           alternatives[i].waypoints[k]) :
                                         k \in 1..Len(alternatives[i].waypoints)})
            /\ last.chosen = alternatives[ranked[1]]
            /\ current_route.path_type = ReroutedType(alternatives[ranked[1]].path_type)
            /\ current_route.reroute_history[Len(current_route.reroute_history)][2]
                   = alternatives[ranked[1]].path_type

\* Two surviving alternatives of equal score, the first supplied chosen, on a
\* route that has been rerouted before.
C26_Witness ==
    /\ Rerouted
    /\ last.ranking # NoRanking
    /\ Len(last.original.reroute_history) = 1
    /\ Len(last.ranking.ranked) = 2
    /\ last.ranking.keys[last.ranking.ranked[1]] = last.ranking.keys[last.ranking.ranked[2]]
    /\ last.chosen = last.ranking.alternatives[1]

\* C27: with no aircraft bound to the rerouter, the route a reroute returns
\* has estimated_time = distance / 900 + 0.5 hours for its own distance,
\* whatever estimated time the original route carried.
C27_DefaultEstimatedTime ==
    (Rerouted /\ ~weather_aware) =>
        LET estimated_time == current_route.estimated_time
        IN  /\ estimated_time # NoTime
            /\ 900 * estimated_time.num
                   = (current_route.distance + 450) * estimated_time.den

\* C28: every route the splicer returns has its leg arrays recomputed for its
\* waypoint sequence: len(leg_distances) = len(waypoints) + 1, distance =
\* sum(leg_distances), and len(leg_times) = len(leg_distances).
C28_SplicedLegArraysRecomputed ==
    Rerouted =>
        /\ Len(current_route.leg_distances) = Len(current_route.waypoints) + 1
        /\ current_route.distance = Sum(current_route.leg_distances)
        /\ Len(current_route.leg_times) = Len(current_route.leg_distances)

\* C30: a reroute call, successful or not, with or without a supplied
\* position, leaves the current route as it found it: the same waypoints in
\* the same order, each with the id, name, order and status it had.
C30_RerouteLeavesCurrentRouteUnchanged ==
    ("kind" \in DOMAIN last) =>
        /\ Len(last.input.waypoints) = Len(last.original.waypoints)
        /\ \A i \in 1..Len(last.original.waypoints) :
               /\ last.input.waypoints[i].id = last.original.waypoints[i].id
               /\ last.input.waypoints[i].name = last.original.waypoints[i].name
               /\ last.input.waypoints[i].order = last.original.waypoints[i].order
               /\ last.input.waypoints[i].status = last.original.waypoints[i].status

\* =========================================================== serialization
\* Route.to_dict and Route.from_dict (route.py lines 481-581), and a chain
\* of reroute calls whose route passes through them between two calls, as a
\* route answered to the client and sent back does (routes_controller.py
\* lines 150 and 261).
\* ------------------------------------------------------------------ values
\* None as the value of a key.
NoneField == [none |-> TRUE]

\* str(uuid) and UUID(text).
UuidStr(id) == [str |-> id]
UuidOf(text) == text.str

\* Waypoint.to_dict and Waypoint.from_dict: the record exposes the id as a
\* string, the name, the coordinates, the order and the status.
WaypointToDict(wp) ==
    [id |-> UuidStr(wp.id), name |-> wp.name,
     coordinates |-> <<wp.latitude, wp.longitude>>,
     order |-> wp.order, status |-> wp.status]
WaypointFromDict(wp_data) ==
    [id |-> UuidOf(wp_data.id), name |-> wp_data.name,
     latitude |-> wp_data.coordinates[1], longitude |-> wp_data.coordinates[2],
     order |-> wp_data.order, status |-> wp_data.status]

\* Airport.to_dict and Airport.from_dict.
AirportToDict(airport) == [coordinates |-> <<airport.latitude, airport.longitude>>]
AirportFromDict(airport_data) ==
    Airport(airport_data.coordinates[1], airport_data.coordinates[2])

\* int(estimated_time) for a time that is not negative (line 501).
WholeHours(estimated_time) == estimated_time.num \div estimated_time.den

\* The remainder minutes rounded to the nearest minute instead of cut.
RemainderMinutesRounded(estimated_time) ==
    (2 * (estimated_time.num % estimated_time.den) * 60 + estimated_time.den)
        \div (2 * estimated_time.den)

\* int((estimated_time % 1) * 60) (line 502).
RemainderMinutes(estimated_time) ==
    ((estimated_time.num % estimated_time.den) * 60) \div estimated_time.den

\* Route.to_dict (lines 481-504); the fuel is a whole number of kg, which
\* round(fuel, 2) leaves as it is.
to_dict(route) ==
    [id |-> UuidStr(route.id),
     name |-> route.name,
     origin |-> IF route.origin # NoAirport THEN AirportToDict(route.origin)
                ELSE NoneField,
     destination |-> IF route.destination # NoAirport
                     THEN AirportToDict(route.destination) ELSE NoneField,
     waypoints |-> [i \in 1..Len(route.waypoints) |->
                       WaypointToDict(route.waypoints[i])],
     path_type |-> route.path_type,
     optimization_method |-> route.optimization_method,
     distance_km |-> route.distance,
     leg_distances |-> route.leg_distances,
     leg_times |-> route.leg_times,
     fitness_score |-> route.fitness_score,
     reroute_history |-> route.reroute_history,
     fuel_consumption |-> route.fuel_consumption,
     estimated_time |-> IF HasTime(route)
                        THEN [hours |-> WholeHours(route.estimated_time),
                              minutes |-> RemainderMinutes(route.estimated_time)]
                        ELSE NoneField]

\* Route.from_dict (lines 533-581) on a record that has every key: the Route
\* constructed from the record, its distance and leg distances computed
\* again, then the estimated time and the history taken from the record.
from_dict(data) ==
    LET constructed ==
            [id |-> UuidOf(data.id),
             name |-> data.name,
             origin |-> IF data.origin # NoneField
                        THEN AirportFromDict(data.origin) ELSE NoAirport,
             destination |-> IF data.destination # NoneField
                             THEN AirportFromDict(data.destination) ELSE NoAirport,
             waypoints |-> [i \in 1..Len(data.waypoints) |->
                               WaypointFromDict(data.waypoints[i])],
             path_type |-> data.path_type,
             optimization_method |-> data.optimization_method,
             distance |-> data.distance_km,
             fitness_score |-> data.fitness_score,
             fuel_consumption |-> data.fuel_consumption,
             reroute_history |-> data.reroute_history]
            @@ Unmeasured
        estimated_time_data == data.estimated_time
        \* lines 563-571
        estimated_time ==
            IF estimated_time_data = NoneField THEN Ratio(0, 1)
            ELSE IF "hours" \in DOMAIN estimated_time_data
            THEN Ratio(estimated_time_data.hours * 60 + estimated_time_data.minutes, 60)
            ELSE estimated_time_data
    IN  [calculate_total_distance(constructed).route
            EXCEPT !.estimated_time = estimated_time]

\* ------------------------------------------------------------------ actions
\* The route of the chain is answered as a record (rerouted_route.to_dict(),
\* routes_controller.py line 261) and read back from it for the next call
\* (Route.from_dict, line 150).  It counts as one of the chain's calls.
RoundTrip ==
    /\ attempts < MaxReroutes
    /\ attempts' = attempts + 1
    /\ \E data \in {to_dict(current_route)} :
           /\ current_route' = from_dict(data)
           /\ last' = [kind |-> "RoundTrip", before |-> current_route, data |-> data]
    /\ UNCHANGED <<used_route_types, weather_aware, uid, reroutes>>
    /\ UNCHANGED <<adj_vars, cost_vars, race_vars>>

NextDict ==
    \/ NextChain
    \/ RoundTrip

SpecDict == InitChain /\ [][NextDict]_vars

\* ----------------------------------------------- claims on serialization
RoundTripped == "kind" \in DOMAIN last /\ last.kind = "RoundTrip"

MaxOverlap == 2
RaceCalls == 1..MaxOverlap

\* ------------------------------------------------------------------ inputs
\* Current routes with different used path types.
RaceRoutes == {InitialRoute(t, MaxOrig, MaxOrig) : t \in {Direct, PathType("left")}}

\* Non-empty lists of alternatives that have waypoints.
RaceAltLists == {l \in AltLists : l # <<>> /\ \A i \in 1..Len(l) : l[i].waypoints # <<>>}

\* --------------------------------------------------------------- the steps
Idle == [pc |-> "idle"]

\* A call that has returned value (a Route, or None), having evaluated the
\* alternatives at the positions kept.
Done(call, kind, chosen, route) ==
    [pc |-> "done", kind |-> kind, chosen |-> chosen, route |-> route,
     current |-> call.current, blocked_waypoint |-> call.blocked_waypoint,
     current_position |-> call.current_position, position |-> call.position,
     alternative_routes |-> call.alternative_routes, scores |-> call.scores,
     kept |-> call.kept]

\* Lines 118-207, after the loop of evaluate_alternatives: the entries sorted,
\* None for no entry, else the first one's path, its type appended to the
\* list self.used_route_types holds at that moment.
Return(call, used, uid0) ==
    IF call.kept = <<>>
    THEN [call |-> Done(call, "None", NoRoute, NoRoute), used |-> used, uid |-> uid0]
    ELSE LET best == BestOf(call.kept, call.scores)
             place == CHOOSE j \in 1..Len(call.kept) : call.kept[j] = best
         IN  [call |-> Done(call, "Route", call.alternative_routes[best],
                            call.paths[place]),
              used |-> Append(used, call.alternative_routes[best].path_type),
              uid |-> uid0]

\* The loop of evaluate_alternatives (lines 33-71) from alternative call.i
\* on, reading the list self.used_route_types holds now: up to the next
\* weather lookup, or to the return when no alternative is left.
RECURSIVE Iterate(_, _, _)
Iterate(call, used, uid0) ==
    LET i == call.i
        alt_route == call.alternative_routes[i]
    IN  IF i > Len(call.alternative_routes)
        THEN Return(call, used, uid0)
        ELSE IF Skipped(used, alt_route) \/ alt_route.waypoints = <<>>
        THEN Iterate([call EXCEPT !.i = i + 1], used, uid0)
        ELSE LET made == CreateReroutedPath(call.current, call.blocked_waypoint,
                                            call.position, alt_route,
                                            NearestIndex(call.position,
                                                         alt_route.waypoints),
                                            uid0, BoundAircraft(TRUE))
             IN  IF made.route.weather_data = <<>>
                 THEN [call |-> [pc |-> "awaiting"] @@
                                [call EXCEPT !.rerouted = made.route],
                       used |-> used, uid |-> made.uid]
                 ELSE Iterate([call EXCEPT
                                  !.i = i + 1,
                                  !.kept = Append(@, i),
                                  !.paths = Append(@, Evaluated(made.route,
                                                                BoundAircraft(TRUE)))],
                              used, made.uid)

\* ------------------------------------------------------------------ actions
\* PPORerouter.__init__ with a weather service and an aircraft (lines 18-25);
\* no call made yet.
InitRace ==
    /\ AdjusterInit
    /\ CostUnused
    /\ current_route = [none |-> TRUE]
    /\ used_route_types = <<>>
    /\ weather_aware = TRUE
    /\ uid = 0
    /\ attempts = 0
    /\ reroutes = 0
    /\ last = [none |-> TRUE]
    /\ in_flight = [c \in RaceCalls |-> Idle]

\* A reroute call starts (lines 129-186): used_route_types is set from its
\* current route, its position resolved, and evaluate_alternatives entered.
Begin(c, current, blocked_waypoint, current_position, alternative_routes, scores) ==
    /\ in_flight[c] = Idle
    /\ attempts' = attempts + 1
    /\ LET resolved == ResolvePosition(current, blocked_waypoint, current_position)
           call == [i |-> 1, kept |-> <<>>, paths |-> <<>>, rerouted |-> NoRoute,
                    current |-> resolved.current,
                    blocked_waypoint |-> blocked_waypoint,
                    current_position |-> current_position,
                    position |-> resolved.position,
                    alternative_routes |-> alternative_routes,
                    scores |-> scores]
       IN  IF ~resolved.found
           THEN /\ in_flight' = [in_flight EXCEPT ![c] =
                                    Done(call, "None", NoRoute, NoRoute)]
                /\ used_route_types' = UsedRouteTypes(current)
                /\ UNCHANGED uid
           ELSE \E r \in {Iterate(call, UsedRouteTypes(current), uid)} :
                    /\ in_flight' = [in_flight EXCEPT ![c] = r.call]
                    /\ used_route_types' = r.used
                    /\ uid' = r.uid
    /\ reroutes' = IF in_flight'[c].pc = "done" /\ in_flight'[c].kind = "Route"
                   THEN reroutes + 1 ELSE reroutes
    /\ UNCHANGED <<current_route, weather_aware, last>>
    /\ UNCHANGED <<adj_vars, cost_vars>>

\* The weather lookup of a suspended call answers (lines 68-76): the path gets
\* its samples and its fuel, its entry is appended, and the loop goes on.
WeatherArrives(c) ==
    /\ in_flight[c].pc = "awaiting"
    /\ LET call == in_flight[c]
           entered == [call EXCEPT
                          !.pc = "running",
                          !.i = @ + 1,
                          !.kept = Append(@, call.i),
                          !.paths = Append(@, Evaluated(call.rerouted,
                                                        BoundAircraft(TRUE))),
                          !.rerouted = NoRoute]
       IN  \E r \in {Iterate(entered, used_route_types, uid)} :
               /\ in_flight' = [in_flight EXCEPT ![c] = r.call]
               /\ used_route_types' = r.used
               /\ uid' = r.uid
    /\ reroutes' = IF in_flight'[c].pc = "done" /\ in_flight'[c].kind = "Route"
                   THEN reroutes + 1 ELSE reroutes
    /\ UNCHANGED <<current_route, weather_aware, attempts, last>>
    /\ UNCHANGED <<adj_vars, cost_vars>>

NextRace ==
    \/ \E c \in RaceCalls, current \in RaceRoutes,
          alternative_routes \in RaceAltLists, scores \in ScoreLists :
           \E blocked_waypoint \in {current.waypoints[MaxOrig]},
              current_position \in {NoPosition, SyntheticPosition} :
               Begin(c, current, blocked_waypoint, current_position,
                     alternative_routes, scores)
    \/ \E c \in RaceCalls : WeatherArrives(c)

SpecRace == InitRace /\ [][NextRace]_vars

\* ------------------------------------------- claims on overlapping calls
\* C29: a reroute call that has returned, whatever other call of the same
\* rerouter ran while it was suspended at the weather lookup, has evaluated
\* exactly the alternatives that the used path types of its own current
\* route do not exclude, and has returned what the call returns when it runs
\* alone (None or a route, spliced from the same alternative).
C29_OverlappingCallsFilterWithOwnSet ==
    \A c \in RaceCalls :
        (in_flight[c].pc = "done" /\ in_flight[c].position # NoPosition) =>
            LET call == in_flight[c]
                alone == RerouteCall(<<>>, TRUE, call.current, call.blocked_waypoint,
                                     call.position, call.alternative_routes,
                                     call.scores, 0)
            IN  /\ call.kept = Survivors(UsedRouteTypes(call.current),
                                         call.alternative_routes)
                /\ call.kind = alone.kind
                /\ call.kind = "Route" => call.chosen = alone.chosen

\* ============================================================== cost model
\* Waypoints of the Route object the cost functions are called on.
MaxPts == 2
\* Calls made on it.
MaxOps == 3

\* ------------------------------------------------------------------ inputs
CostRoutes ==
    {NewRoute(o, d, pts) :
        o \in {Point(0, 0), NoAirport},
        d \in {Point(MaxPts + 1, 0), NoAirport},
        pts \in UNION {[1..k -> {Point(i, 0) : i \in 1..MaxPts}] : k \in 0..MaxPts}}

\* ------------------------------------------------------------------ actions
InitCost ==
    /\ AdjusterInit
    /\ PPOUnused
    /\ RaceUnused
    /\ cost_route \in CostRoutes
    /\ cost_ops = 0
    /\ cost_last = [none |-> TRUE]

\* One call on the Route object; cost_last records it.
CostCall(op, aircraft, out) ==
    /\ cost_ops < MaxOps
    /\ cost_ops' = cost_ops + 1
    /\ cost_route' = out.route
    /\ cost_last' = [op |-> op, aircraft |-> aircraft, raised |-> out.raised,
                     value |-> out.value,
                     legs_before |-> Len(cost_route.leg_distances),
                     before |-> cost_route]
    /\ UNCHANGED <<adj_vars, ppo_vars, race_vars>>

\* route.waypoints = new_waypoints (route_adjuster.py line 145).
ReplaceWaypoints(points) ==
    CostCall("replace", NoAircraft,
             Returned([cost_route EXCEPT !.waypoints = points], NoneValue))

TotalDistance ==
    CostCall("total_distance", NoAircraft, calculate_total_distance(cost_route))

LegTimesCall(aircraft) ==
    CostCall("leg_times", aircraft, calculate_leg_times(cost_route, aircraft))

EstimatedTime(aircraft) ==
    CostCall("estimated_time", aircraft, calculate_estimated_time(cost_route, aircraft))

FuelConsumption(aircraft, weather_data) ==
    CostCall("fuel_consumption", aircraft,
             calculate_fuel_consumption(cost_route, aircraft, weather_data))

\* The weather service's samples are stored on the route
\* (ppo_rerouter.py lines 68-72).
PopulateWeather(weather_data) ==
    CostCall("weather", NoAircraft,
             Returned([cost_route EXCEPT !.weather_data = weather_data], NoneValue))

\* The weights a caller passes, in tenths: the defaults 0.6 and 0.4, or the
\* whole weight on one of the two.
FitnessWeights == {<<6, 4>>, <<0, 10>>, <<10, 0>>}

FitnessScore(aircraft, weights) ==
    CostCall("fitness", aircraft,
             calculate_fitness_score(cost_route, aircraft, weights[1], weights[2]))

NextCost ==
    \/ \E points \in {r.waypoints : r \in CostRoutes} : ReplaceWaypoints(points)
    \/ TotalDistance
    \/ \E aircraft \in Aircrafts : LegTimesCall(aircraft)
    \/ \E aircraft \in Aircrafts : EstimatedTime(aircraft)
    \/ \E aircraft \in Aircrafts, weather_data \in WeatherData :
           FuelConsumption(aircraft, weather_data)
    \/ \E weather_data \in RouteWeather : PopulateWeather(weather_data)
    \/ \E aircraft \in Aircrafts, weights \in FitnessWeights :
           FitnessScore(aircraft, weights)

SpecCost == InitCost /\ [][NextCost]_vars

\* ------------------------------------------------ claims on the cost model
Called(op) == "op" \in DOMAIN cost_last /\ cost_last.op = op

\* C17: no call of total_distance, leg_times, estimated_time or
\* fuel_consumption raises, whatever the aircraft (absent, cruise speed of
\* zero), the weather samples, the endpoints and the number of waypoints.
C17_CostFunctionsNeverRaise ==
    "op" \in DOMAIN cost_last => ~cost_last.raised

\* C19: total_distance on a route without waypoints stores the single leg
\* origin to destination and its length as the distance when both endpoints
\* are present, and the distance zero when an endpoint is absent.
C19_ZeroWaypointDistance ==
    (Called("total_distance") /\ cost_route.waypoints = <<>>) =>
        IF cost_route.origin # NoAirport /\ cost_route.destination # NoAirport
        THEN /\ cost_route.leg_distances
                    = <<Dist(cost_route.origin, cost_route.destination)>>
             /\ cost_route.distance = Dist(cost_route.origin, cost_route.destination)
        ELSE cost_route.distance = 0

\* C20: on a route with waypoints, once leg_times is computed with an
\* aircraft that has a cruise speed, leg_times and leg_distances have the same
\* length, whatever calls and waypoint replacements came before.
C20_LegTimesMatchLegDistances ==
    (/\ Called("leg_times")
     /\ cost_last.aircraft # NoAircraft
     /\ cost_route.waypoints # <<>>)
        => Len(cost_route.leg_times) = Len(cost_route.leg_distances)

\* leg_times computed on a route whose stored leg_distances were those of an
\* earlier, shorter or longer, waypoint sequence.
C20_Witness ==
    /\ Called("leg_times")
    /\ cost_last.aircraft # NoAircraft
    /\ cost_route.waypoints # <<>>
    /\ cost_last.legs_before > 0
    /\ cost_last.legs_before # Len(cost_route.leg_distances)

\* C21: on a route with fewer than two weather samples (none, or exactly
\* one) fitness stores and returns distance / 1000, the distance being the
\* stored one, or the sum of the legs recomputed when the stored one is zero;
\* the aircraft and the two weights have no part in the result.
C21_FitnessFallsBackToDistance ==
    (Called("fitness") /\ Len(cost_last.before.weather_data) < 2) =>
        LET before == cost_last.before
            distance ==
                IF before.distance = 0
                THEN Sum(LegDistances(before.origin, before.waypoints,
                                      before.destination))
                ELSE before.distance
        IN  /\ ~cost_last.raised
            /\ cost_route.fitness_score = Ratio(distance, 1000)
            /\ cost_last.value = Value(Ratio(distance, 1000))

\* Fitness called with an aircraft on a route that has exactly one sample and
\* a stored distance of zero, which the call recomputes to a positive one.
C21_Witness ==
    /\ Called("fitness")
    /\ Len(cost_last.before.weather_data) = 1
    /\ cost_last.aircraft # NoAircraft
    /\ cost_last.before.distance = 0
    /\ cost_route.fitness_score.num > 0

====
